---------------------------- MODULE Spec2Model ----------------------------
(***************************************************************************)
(* Two bounded single-producer/single-consumer queues:                     *)
(*                                                                         *)
(*   - dro::SPSCQueue (src/dro/spsc-queue.hpp), the index-tracked ring     *)
(*     with a slack slot and per-side shadow cursors;                      *)
(*   - FastQueue (src/fast_queue_x86_64.h, src/fast_queue_arm64.h), the    *)
(*     sentinel-tracked ring with the stopQueue() shutdown handshake.      *)
(*                                                                         *)
(* Each thread is a program counter plus its locals.  One step of a thread *)
(* performs at most one access to memory that another thread writes, so    *)
(* the behaviours are the interleavings of the individual loads and stores *)
(* of the two (three, with a stopQueue caller) threads.  Elements are      *)
(* 8-byte values: a racing load returns the old or the new value whole.    *)
(***************************************************************************)
EXTENDS Integers, Sequences, FiniteSets

(* ------------------------------ bounds -------------------------------- *)

\* largest capacity argument given to the SPSCQueue constructor
MaxCap == 2
\* number of values either producer offers (values are 1..MaxPush, as the
\* counter of fastQueueProducer in src/main.cpp)
MaxPush == 4
\* width in bits of std::size_t in the constructor's arithmetic
SizeBits == 6
\* largest template argument N of the StackBuffer variant
MaxN == 2

(* --------------------------- SPSCQueue state --------------------------- *)

VARIABLES
  capacity_,          \* HeapBuffer::capacity_  (capacity argument + 1)
  buffer_,            \* HeapBuffer::buffer_
  writeIndex_,        \* writer_.writeIndex_
  readIndexCache_,    \* writer_.readIndexCache_
  readIndex_,         \* reader_.readIndex_
  writeIndexCache_,   \* reader_.writeIndexCache_
  capacityCache_,     \* reader_.capacityCache_
  ppc,                \* producer: "idle", "check", "write", "publish"
  pOp,                \* producer: the operation in progress / last called
  p_writeIndex,       \* producer local writeIndex
  p_nextWriteIndex,   \* producer local nextWriteIndex
  p_val,              \* producer: the argument being enqueued
  pRet,               \* producer: result of the last try_emplace
  cpc,                \* consumer: "idle", "check", "read", "publish"
  cOp,                \* consumer: the operation in progress / last called
  c_readIndex,        \* consumer local readIndex
  c_val,              \* consumer: the output argument val
  cRet,               \* consumer: result of the last try_pop
  pushed,             \* history: values accepted by completed pushes
  popped,             \* history: values delivered by completed pops
  pushesSincePop,     \* history: pushes completed since the last completed pop
  N,                  \* template argument N (0: HeapBuffer, > 0: StackBuffer)
  ctor_capacity,      \* the capacity argument of the constructor
  ctor_result         \* "none" before the constructor ran, "ok" when it
                      \* returned, else the exception it threw

ctorVars == <<N, ctor_capacity, ctor_result>>

sVars == <<capacity_, buffer_, writeIndex_, readIndexCache_, readIndex_,
           writeIndexCache_, capacityCache_, ppc, pOp, p_writeIndex,
           p_nextWriteIndex, p_val, pRet, cpc, cOp, c_readIndex, c_val,
           cRet, pushed, popped, pushesSincePop, ctorVars>>

(* --------------------------- FastQueue state --------------------------- *)

VARIABLES
  arch,                  \* "x86_64" or "arm64": which header is compiled
  mRingBuffer,           \* mRingBuffer[i].mObj
  mReadPosition,
  mWritePosition,
  mExitThread,
  mExitThreadSemaphore,
  qp_pc,                 \* producer: "idle", "test", "sem", "incr", "store"
  qp_val,                \* producer: the argument of push
  qp_idx,                \* producer: the value of mWritePosition++
  qp_result,             \* producer: how the last push ended
  qc_pc,                 \* consumer: "idle", "test", "marker", "sem",
                         \*           "incr", "clear"
  aOut,                  \* consumer: the output argument of pop
  qc_idx,                \* consumer: the value of mReadPosition++
  st_pc,                 \* stopQueue caller: "idle", "mark", "flag"
  st_w,                  \* stopQueue caller: the loaded mWritePosition
  st_by,                 \* stopQueue caller: "producer" or "other" thread
  qNext,                 \* history: the value the next push call offers
  qPushed,               \* history: values stored by completed pushes
  qPopped,               \* history: non-null values returned by pop
  qEos,                  \* history: some pop returned null
  stops,                 \* history: number of stopQueue() calls begun
  acceptedAtStop,        \* history: Len(qPushed) when stopQueue() was
                         \*          first called
  pushAfterStop,         \* history: a push was in progress at, or began
                         \*          after, a stopQueue() call
  popBeforeStop,         \* history: a pop began before a stopQueue() call
                         \*          had returned
  qp_afterStop           \* history: the push in progress (or the last one)
                         \*          began after a stopQueue() call returned

qVars == <<arch, mRingBuffer, mReadPosition, mWritePosition, mExitThread,
           mExitThreadSemaphore, qp_pc, qp_val, qp_idx, qp_result, qc_pc,
           aOut, qc_idx, st_pc, st_w, st_by, qNext, qPushed, qPopped, qEos,
           stops, acceptedAtStop, pushAfterStop, popBeforeStop,
           qp_afterStop>>

vars == <<sVars, qVars>>

\* 2^n
RECURSIVE Pow2(_)
Pow2(n) == IF n = 0 THEN 1 ELSE 2 * Pow2(n - 1)

\* HeapBuffer::MAX_SIZE_T, std::numeric_limits<std::size_t>::max()
MAX_SIZE_T == Pow2(SizeBits) - 1

\* details::cacheLineSize, the fallback value
cacheLineSize == 64
\* sizeof(T) for the 8-byte element type
SizeofT == 8
\* HeapBuffer::padding
padding == ((cacheLineSize - 1) \div SizeofT) + 1
\* writer_.paddingCache_
paddingCache_ == padding

\* HeapBuffer::HeapBuffer followed by SPSCQueue::SPSCQueue, capacity >= 1
SPSCQueueInit(capacity) ==
  /\ capacity_ = capacity + 1
  /\ buffer_ = [i \in 0..(capacity + 1 + (2 * padding) - 1) |-> 0]
  /\ writeIndex_ = 0
  /\ readIndexCache_ = 0
  /\ readIndex_ = 0
  /\ writeIndexCache_ = 0
  /\ capacityCache_ = capacity + 1

\* before the constructor has run there is no queue object
NoQueue ==
  /\ capacity_ = 0
  /\ buffer_ = <<>>
  /\ writeIndex_ = 0
  /\ readIndexCache_ = 0
  /\ readIndex_ = 0
  /\ writeIndexCache_ = 0
  /\ capacityCache_ = 0

\* both threads before their first call
SPSCThreadsInit ==
  /\ ppc = "idle" /\ pOp = "none" /\ p_writeIndex = 0 /\ p_nextWriteIndex = 0
  /\ p_val = 0 /\ pRet = TRUE
  /\ cpc = "idle" /\ cOp = "none" /\ c_readIndex = 0 /\ c_val = 0
  /\ cRet = TRUE
  /\ pushed = <<>> /\ popped = <<>> /\ pushesSincePop = 0

\* (writeIndex == capacity_ - 1) ? 0 : writeIndex + 1
NextWriteIndexOffByOne(writeIndex) ==
  IF writeIndex = capacity_ THEN 0 ELSE writeIndex + 1
NextWriteIndex(writeIndex) ==
  IF writeIndex = capacity_ - 1 THEN 0 ELSE writeIndex + 1

\* (readIndex == capacityCache_ - 1) ? 0 : readIndex + 1
NextReadIndexOffByOne(readIndex) ==
  IF readIndex = capacityCache_ THEN 0 ELSE readIndex + 1
NextReadIndex(readIndex) ==
  IF readIndex = capacityCache_ - 1 THEN 0 ELSE readIndex + 1

\* SPSCQueue::size
sizeAddsCapacity ==
  IF writeIndex_ >= readIndex_
    THEN writeIndex_ - readIndex_
    ELSE ((capacity_ - 1) - readIndex_) + writeIndex_
size ==
  IF writeIndex_ >= readIndex_
    THEN writeIndex_ - readIndex_
    ELSE (capacity_ - readIndex_) + writeIndex_

\* SPSCQueue::empty
empty == writeIndex_ = readIndex_

\* SPSCQueue::capacity (std::size_t arithmetic)
capacityReportsSlack == capacity_ % Pow2(SizeBits)
capacity == (capacity_ - 1) % Pow2(SizeBits)

prodLocals == <<ppc, pOp, p_writeIndex, p_nextWriteIndex, p_val, pRet>>
consLocals == <<cpc, cOp, c_readIndex, c_val, cRet>>
consShared == <<readIndex_, writeIndexCache_, capacityCache_>>
prodShared == <<writeIndex_, readIndexCache_>>
history    == <<pushed, popped, pushesSincePop>>

\* the value the producer offers next
NextValue == Len(pushed) + 1

(* ------------------------ SPSCQueue construction ----------------------- *)

\* SPSCQueue<T, 0>(capacity): HeapBuffer::HeapBuffer, then the body of
\* SPSCQueue::SPSCQueue.  capacity_ is initialised to capacity + 1 in
\* std::size_t before either test; buffer_.resize is taken to succeed.
HeapBuffer_ctorNoSlack ==
  /\ ctor_result = "none" /\ N = 0
  /\ LET sum == ctor_capacity % Pow2(SizeBits)
     IN  IF ctor_capacity < 1
           THEN /\ ctor_result' = "logic_error"
                /\ UNCHANGED <<capacity_, buffer_, capacityCache_>>
           ELSE IF sum > MAX_SIZE_T - (2 * padding)
             THEN /\ ctor_result' = "overflow_error"
                  /\ UNCHANGED <<capacity_, buffer_, capacityCache_>>
             ELSE /\ ctor_result' = "ok"
                  /\ capacity_' = sum
                  /\ buffer_' = [i \in 0..(sum + (2 * padding) - 1) |-> 0]
                  /\ capacityCache_' = sum
  /\ UNCHANGED <<N, ctor_capacity, prodShared, readIndex_, writeIndexCache_,
                 prodLocals, consLocals, history>>
  /\ UNCHANGED qVars
HeapBuffer_ctorTestsSum ==
  /\ ctor_result = "none" /\ N = 0
  /\ LET sum == (ctor_capacity + 1) % Pow2(SizeBits)
     IN  IF sum < 1
           THEN /\ ctor_result' = "logic_error"
                /\ UNCHANGED <<capacity_, buffer_, capacityCache_>>
           ELSE IF sum > MAX_SIZE_T - (2 * padding)
             THEN /\ ctor_result' = "overflow_error"
                  /\ UNCHANGED <<capacity_, buffer_, capacityCache_>>
             ELSE /\ ctor_result' = "ok"
                  /\ capacity_' = sum
                  /\ buffer_' = [i \in 0..(sum + (2 * padding) - 1) |-> 0]
                  /\ capacityCache_' = sum
  /\ UNCHANGED <<N, ctor_capacity, prodShared, readIndex_, writeIndexCache_,
                 prodLocals, consLocals, history>>
  /\ UNCHANGED qVars
HeapBuffer_ctor ==
  /\ ctor_result = "none" /\ N = 0
  /\ LET sum == (ctor_capacity + 1) % Pow2(SizeBits)
     IN  IF ctor_capacity < 1
           THEN /\ ctor_result' = "logic_error"
                /\ UNCHANGED <<capacity_, buffer_, capacityCache_>>
           ELSE IF sum > MAX_SIZE_T - (2 * padding)
             THEN /\ ctor_result' = "overflow_error"
                  /\ UNCHANGED <<capacity_, buffer_, capacityCache_>>
             ELSE /\ ctor_result' = "ok"
                  /\ capacity_' = sum
                  /\ buffer_' = [i \in 0..(sum + (2 * padding) - 1) |-> 0]
                  /\ capacityCache_' = sum
  /\ UNCHANGED <<N, ctor_capacity, prodShared, readIndex_, writeIndexCache_,
                 prodLocals, consLocals, history>>
  /\ UNCHANGED qVars

\* SPSCQueue<T, N>(capacity), N > 0: StackBuffer::StackBuffer, then the body
\* of SPSCQueue::SPSCQueue
StackBuffer_ctor ==
  /\ ctor_result = "none" /\ N > 0
  /\ IF ctor_capacity # 0
       THEN /\ ctor_result' = "invalid_argument"
            /\ UNCHANGED <<capacity_, buffer_, capacityCache_>>
       ELSE /\ ctor_result' = "ok"
            /\ capacity_' = N + 1
            /\ buffer_' = [i \in 0..(N + 1 + (2 * padding) - 1) |-> 0]
            /\ capacityCache_' = N + 1
  /\ UNCHANGED <<N, ctor_capacity, prodShared, readIndex_, writeIndexCache_,
                 prodLocals, consLocals, history>>
  /\ UNCHANGED qVars

(* ------------------------- SPSCQueue producer -------------------------- *)

\* entry of emplace / try_emplace / force_emplace: the relaxed load of the
\* producer's own writeIndex_ and the computation of nextWriteIndex
ProducerEnter(op) ==
  /\ ctor_result = "ok"
  /\ ppc = "idle"
  /\ NextValue <= MaxPush
  /\ pOp' = op
  /\ p_val' = NextValue
  /\ p_writeIndex' = writeIndex_
  /\ p_nextWriteIndex' = NextWriteIndex(writeIndex_)
  /\ ppc' = IF op = "force_emplace" THEN "write" ELSE "check"
  /\ UNCHANGED <<pRet, capacity_, buffer_, prodShared, consShared,
                 consLocals, history>>
  /\ UNCHANGED <<qVars, ctorVars>>

Emplace_Enter == ProducerEnter("emplace")
TryEmplace_Enter == ProducerEnter("try_emplace")
ForceEmplace_Enter == ProducerEnter("force_emplace")

\* emplace: one evaluation of the while condition and, when it holds, of
\* the loop body (the acquire load of readIndex_)
Emplace_WaitLoadsWriteIndex ==
  /\ ppc = "check" /\ pOp = "emplace"
  /\ IF p_nextWriteIndex = readIndexCache_
       THEN /\ readIndexCache_' = writeIndex_
            /\ ppc' = ppc
       ELSE /\ readIndexCache_' = readIndexCache_
            /\ ppc' = "write"
  /\ UNCHANGED <<pOp, p_writeIndex, p_nextWriteIndex, p_val, pRet,
                 capacity_, buffer_, writeIndex_, consShared, consLocals,
                 history>>
  /\ UNCHANGED <<qVars, ctorVars>>
Emplace_Wait ==
  /\ ppc = "check" /\ pOp = "emplace"
  /\ IF p_nextWriteIndex = readIndexCache_
       THEN /\ readIndexCache_' = readIndex_
            /\ ppc' = ppc
       ELSE /\ readIndexCache_' = readIndexCache_
            /\ ppc' = "write"
  /\ UNCHANGED <<pOp, p_writeIndex, p_nextWriteIndex, p_val, pRet,
                 capacity_, buffer_, writeIndex_, consShared, consLocals,
                 history>>
  /\ UNCHANGED <<qVars, ctorVars>>

\* try_emplace: the if, the refresh of readIndexCache_ and the second if
TryEmplace_CheckNoRefresh ==
  /\ ppc = "check" /\ pOp = "try_emplace"
  /\ IF p_nextWriteIndex = readIndexCache_
       THEN /\ readIndexCache_' = readIndexCache_
            /\ ppc' = "idle" /\ pRet' = FALSE
       ELSE /\ readIndexCache_' = readIndexCache_
            /\ ppc' = "write" /\ pRet' = pRet
  /\ UNCHANGED <<pOp, p_writeIndex, p_nextWriteIndex, p_val,
                 capacity_, buffer_, writeIndex_, consShared, consLocals,
                 history>>
  /\ UNCHANGED <<qVars, ctorVars>>
TryEmplace_CheckNoRecheck ==
  /\ ppc = "check" /\ pOp = "try_emplace"
  /\ readIndexCache_' = IF p_nextWriteIndex = readIndexCache_
                          THEN readIndex_ ELSE readIndexCache_
  /\ ppc' = "write"
  /\ UNCHANGED <<pOp, p_writeIndex, p_nextWriteIndex, p_val, pRet,
                 capacity_, buffer_, writeIndex_, consShared, consLocals,
                 history>>
  /\ UNCHANGED <<qVars, ctorVars>>
TryEmplace_CheckWrongIndex ==
  /\ ppc = "check" /\ pOp = "try_emplace"
  /\ IF p_writeIndex = readIndexCache_
       THEN /\ readIndexCache_' = readIndex_
            /\ IF p_writeIndex = readIndex_
                 THEN ppc' = "idle" /\ pRet' = FALSE
                 ELSE ppc' = "write" /\ pRet' = pRet
       ELSE /\ readIndexCache_' = readIndexCache_
            /\ ppc' = "write" /\ pRet' = pRet
  /\ UNCHANGED <<pOp, p_writeIndex, p_nextWriteIndex, p_val,
                 capacity_, buffer_, writeIndex_, consShared, consLocals,
                 history>>
  /\ UNCHANGED <<qVars, ctorVars>>
TryEmplace_Check ==
  /\ ppc = "check" /\ pOp = "try_emplace"
  /\ IF p_nextWriteIndex = readIndexCache_
       THEN /\ readIndexCache_' = readIndex_
            /\ IF p_nextWriteIndex = readIndex_
                 THEN ppc' = "idle" /\ pRet' = FALSE
                 ELSE ppc' = "write" /\ pRet' = pRet
       ELSE /\ readIndexCache_' = readIndexCache_
            /\ ppc' = "write" /\ pRet' = pRet
  /\ UNCHANGED <<pOp, p_writeIndex, p_nextWriteIndex, p_val,
                 capacity_, buffer_, writeIndex_, consShared, consLocals,
                 history>>
  /\ UNCHANGED <<qVars, ctorVars>>

\* write_value(writeIndex, args...)
write_value ==
  /\ ppc = "write"
  /\ buffer_' = [buffer_ EXCEPT ![p_writeIndex + paddingCache_] = p_val]
  /\ ppc' = "publish"
  /\ UNCHANGED <<pOp, p_writeIndex, p_nextWriteIndex, p_val, pRet,
                 capacity_, prodShared, consShared, consLocals, history>>
  /\ UNCHANGED <<qVars, ctorVars>>

\* writer_.writeIndex_.store(nextWriteIndex, release) and the return
Producer_Publish ==
  /\ ppc = "publish"
  /\ writeIndex_' = p_nextWriteIndex
  /\ pRet' = TRUE
  /\ ppc' = "idle"
  /\ pushed' = Append(pushed, p_val)
  /\ pushesSincePop' = pushesSincePop + 1
  /\ UNCHANGED <<pOp, p_writeIndex, p_nextWriteIndex, p_val, capacity_,
                 buffer_, readIndexCache_, consShared, consLocals, popped>>
  /\ UNCHANGED <<qVars, ctorVars>>

(* ------------------------- SPSCQueue consumer -------------------------- *)

\* entry of pop / try_pop: the relaxed load of the consumer's own readIndex_
ConsumerEnter(op) ==
  /\ ctor_result = "ok"
  /\ cpc = "idle"
  /\ cOp' = op
  /\ c_readIndex' = readIndex_
  /\ cpc' = "check"
  /\ UNCHANGED <<c_val, cRet, capacity_, buffer_, prodShared, consShared,
                 prodLocals, history>>
  /\ UNCHANGED <<qVars, ctorVars>>

Pop_Enter == ConsumerEnter("pop")
TryPop_Enter == ConsumerEnter("try_pop")

\* pop: one evaluation of the while condition and, when it holds, of the
\* loop body (the acquire load of writeIndex_)
Pop_WaitNeverWaits ==
  /\ cpc = "check" /\ cOp = "pop"
  /\ writeIndexCache_' = writeIndexCache_
  /\ cpc' = "read"
  /\ UNCHANGED <<cOp, c_readIndex, c_val, cRet, capacity_, buffer_,
                 prodShared, readIndex_, capacityCache_, prodLocals,
                 history>>
  /\ UNCHANGED <<qVars, ctorVars>>
Pop_Wait ==
  /\ cpc = "check" /\ cOp = "pop"
  /\ IF c_readIndex = writeIndexCache_
       THEN /\ writeIndexCache_' = writeIndex_
            /\ cpc' = cpc
       ELSE /\ writeIndexCache_' = writeIndexCache_
            /\ cpc' = "read"
  /\ UNCHANGED <<cOp, c_readIndex, c_val, cRet, capacity_, buffer_,
                 prodShared, readIndex_, capacityCache_, prodLocals,
                 history>>
  /\ UNCHANGED <<qVars, ctorVars>>

\* try_pop: the if, the refresh of writeIndexCache_ and the second if
TryPop_CheckNoRefresh ==
  /\ cpc = "check" /\ cOp = "try_pop"
  /\ IF c_readIndex = writeIndexCache_
       THEN /\ writeIndexCache_' = writeIndexCache_
            /\ cpc' = "idle" /\ cRet' = FALSE
       ELSE /\ writeIndexCache_' = writeIndexCache_
            /\ cpc' = "read" /\ cRet' = cRet
  /\ UNCHANGED <<cOp, c_readIndex, c_val, capacity_, buffer_,
                 prodShared, readIndex_, capacityCache_, prodLocals,
                 history>>
  /\ UNCHANGED <<qVars, ctorVars>>
TryPop_Check ==
  /\ cpc = "check" /\ cOp = "try_pop"
  /\ IF c_readIndex = writeIndexCache_
       THEN /\ writeIndexCache_' = writeIndex_
            /\ IF c_readIndex = writeIndex_
                 THEN cpc' = "idle" /\ cRet' = FALSE
                 ELSE cpc' = "read" /\ cRet' = cRet
       ELSE /\ writeIndexCache_' = writeIndexCache_
            /\ cpc' = "read" /\ cRet' = cRet
  /\ UNCHANGED <<cOp, c_readIndex, c_val, capacity_, buffer_,
                 prodShared, readIndex_, capacityCache_, prodLocals,
                 history>>
  /\ UNCHANGED <<qVars, ctorVars>>

\* val = read_value(readIndex)
read_value ==
  /\ cpc = "read"
  /\ c_val' = buffer_[c_readIndex + padding]
  /\ cpc' = "publish"
  /\ UNCHANGED <<cOp, c_readIndex, cRet, capacity_, buffer_, prodShared,
                 consShared, prodLocals, history>>
  /\ UNCHANGED <<qVars, ctorVars>>

\* reader_.readIndex_.store(nextReadIndex, release) and the return
Consumer_Publish ==
  /\ cpc = "publish"
  /\ readIndex_' = NextReadIndex(c_readIndex)
  /\ cRet' = TRUE
  /\ cpc' = "idle"
  /\ popped' = Append(popped, c_val)
  /\ pushesSincePop' = 0
  /\ UNCHANGED <<cOp, c_readIndex, c_val, capacity_, buffer_, prodShared,
                 writeIndexCache_, capacityCache_, prodLocals, pushed>>
  /\ UNCHANGED <<qVars, ctorVars>>

(* ------------------------- FastQueue parameters ------------------------ *)

\* RING_BUFFER_SIZE is 2^RingBits - 1 (the static_assert of both headers)
RingBits == 1
\* number of values the FastQueue producer offers
MaxItems == 3
\* number of stopQueue() calls
MaxStops == 1

\* the template argument RING_BUFFER_SIZE (QUEUE_MASK in src/main.cpp)
RING_BUFFER_SIZE == Pow2(RingBits) - 1

\* nullptr
Null == 0

\* a & b on unsigned integers
RECURSIVE BitAnd(_, _)
BitAnd(a, b) ==
  IF a = 0 \/ b = 0 THEN 0
  ELSE (IF a % 2 = 1 /\ b % 2 = 1 THEN 1 ELSE 0)
         + 2 * BitAnd(a \div 2, b \div 2)

\* the slot of a position: position & RING_BUFFER_SIZE
SlotOf(position) == BitAnd(position, RING_BUFFER_SIZE)

\* the member initialisers of FastQueue
FastQueueInit(a) ==
  /\ arch = a
  /\ mRingBuffer = [i \in 0..RING_BUFFER_SIZE |-> Null]
  /\ mReadPosition = (IF a = "arm64" THEN 1 ELSE 0)
  /\ mWritePosition = (IF a = "arm64" THEN 1 ELSE 0)
  /\ mExitThread = 0
  /\ mExitThreadSemaphore = FALSE

\* the three threads before their first call
FastQueueThreadsInit ==
  /\ qp_pc = "idle" /\ qp_val = Null /\ qp_idx = 0 /\ qp_result = "none"
  /\ qc_pc = "idle" /\ aOut = Null /\ qc_idx = 0
  /\ st_pc = "idle" /\ st_w = 0 /\ st_by = "none"
  /\ qNext = 1 /\ qPushed = <<>> /\ qPopped = <<>> /\ qEos = FALSE
  /\ stops = 0 /\ acceptedAtStop = 0 /\ pushAfterStop = FALSE
  /\ popBeforeStop = FALSE /\ qp_afterStop = FALSE

qShared   == <<mRingBuffer, mReadPosition, mWritePosition, mExitThread,
               mExitThreadSemaphore>>
qProd     == <<qp_pc, qp_val, qp_idx, qp_result>>
qCons     == <<qc_pc, aOut, qc_idx>>
qStop     == <<st_pc, st_w, st_by>>
qHistory  == <<qNext, qPushed, qPopped, qEos, stops, acceptedAtStop,
               pushAfterStop, popBeforeStop, qp_afterStop>>

\* the producer thread is inside a stopQueue() call of its own
ProducerInStop == st_pc # "idle" /\ st_by = "producer"

(* ------------------------- FastQueue producer -------------------------- *)

\* push is called with a non-null value
Push_Call ==
  /\ qp_pc = "idle" /\ ~ProducerInStop
  /\ qNext <= MaxItems
  /\ qp_val' = qNext
  /\ qNext' = qNext + 1
  /\ qp_pc' = "test"
  /\ pushAfterStop' = (pushAfterStop \/ stops > 0)
  /\ qp_afterStop' = mExitThreadSemaphore
  /\ UNCHANGED <<arch, qShared, qp_idx, qp_result, qCons, qStop, qPushed,
                 qPopped, qEos, stops, acceptedAtStop, popBeforeStop>>
  /\ UNCHANGED sVars

\* while (mRingBuffer[mWritePosition & RING_BUFFER_SIZE].mObj)
Push_TestIgnoresSlot ==
  /\ qp_pc = "test"
  /\ qp_pc' = "incr"
  /\ UNCHANGED <<arch, qShared, qp_val, qp_idx, qp_result, qCons, qStop,
                 qHistory>>
  /\ UNCHANGED sVars
Push_Test ==
  /\ qp_pc = "test"
  /\ qp_pc' = IF mRingBuffer[SlotOf(mWritePosition)] # Null
                THEN "sem" ELSE "incr"
  /\ UNCHANGED <<arch, qShared, qp_val, qp_idx, qp_result, qCons, qStop,
                 qHistory>>
  /\ UNCHANGED sVars

\* if (mExitThreadSemaphore) return;
Push_SemIgnoresFlag ==
  /\ qp_pc = "sem"
  /\ qp_pc' = "test" /\ qp_result' = qp_result
  /\ UNCHANGED <<arch, qShared, qp_val, qp_idx, qCons, qStop, qHistory>>
  /\ UNCHANGED sVars
Push_Sem ==
  /\ qp_pc = "sem"
  /\ IF mExitThreadSemaphore
       THEN qp_pc' = "idle" /\ qp_result' = "abandoned"
       ELSE qp_pc' = "test" /\ qp_result' = qp_result
  /\ UNCHANGED <<arch, qShared, qp_val, qp_idx, qCons, qStop, qHistory>>
  /\ UNCHANGED sVars

\* mWritePosition++ inside the index expression of the placement new
Push_Incr ==
  /\ qp_pc = "incr"
  /\ qp_idx' = mWritePosition
  /\ mWritePosition' = mWritePosition + 1
  /\ qp_pc' = "store"
  /\ UNCHANGED <<arch, mRingBuffer, mReadPosition, mExitThread,
                 mExitThreadSemaphore, qp_val, qp_result, qCons, qStop,
                 qHistory>>
  /\ UNCHANGED sVars

\* new(&mRingBuffer[... & RING_BUFFER_SIZE].mObj) T{args...} and the return
Push_Store ==
  /\ qp_pc = "store"
  /\ mRingBuffer' = [mRingBuffer EXCEPT ![SlotOf(qp_idx)] = qp_val]
  /\ qp_pc' = "idle"
  /\ qp_result' = "enqueued"
  /\ qPushed' = Append(qPushed, qp_val)
  /\ UNCHANGED <<arch, mReadPosition, mWritePosition, mExitThread,
                 mExitThreadSemaphore, qp_val, qp_idx, qCons, qStop, qNext,
                 qPopped, qEos, stops, acceptedAtStop, pushAfterStop, popBeforeStop>>
  /\ UNCHANGED qp_afterStop
  /\ UNCHANGED sVars

(* ------------------------- FastQueue consumer -------------------------- *)

\* pop is called: std::atomic_thread_fence(std::memory_order_consume)
Pop_Call ==
  /\ qc_pc = "idle"
  /\ qc_pc' = "test"
  /\ popBeforeStop' = (popBeforeStop \/ stops = 0 \/ st_pc # "idle")
  /\ UNCHANGED <<arch, qShared, qProd, aOut, qc_idx, qStop, qNext, qPushed,
                 qPopped, qEos, stops, acceptedAtStop, pushAfterStop>>
  /\ UNCHANGED qp_afterStop
  /\ UNCHANGED sVars

\* while (!(aOut = mRingBuffer[mReadPosition & RING_BUFFER_SIZE].mObj))
Pop_TestShutdownFirst ==
  /\ qc_pc = "test"
  /\ IF mExitThreadSemaphore
       THEN /\ aOut' = Null
            /\ qc_pc' = "idle"
            /\ qEos' = TRUE
       ELSE /\ aOut' = mRingBuffer[SlotOf(mReadPosition)]
            /\ qc_pc' = IF aOut' # Null THEN "incr" ELSE "marker"
            /\ qEos' = qEos
  /\ UNCHANGED <<arch, qShared, qProd, qc_idx, qStop, qNext, qPushed,
                 qPopped, stops, acceptedAtStop, pushAfterStop,
                 popBeforeStop>>
  /\ UNCHANGED qp_afterStop
  /\ UNCHANGED sVars
Pop_Test ==
  /\ qc_pc = "test"
  /\ aOut' = mRingBuffer[SlotOf(mReadPosition)]
  /\ qc_pc' = IF aOut' # Null THEN "incr" ELSE "marker"
  /\ UNCHANGED <<arch, qShared, qProd, qc_idx, qStop, qHistory>>
  /\ UNCHANGED sVars

\* mExitThread == mReadPosition
ExitMarkerReached == mExitThread = mReadPosition

\* the condition of the if inside pop's loop, one load per step:
\*   x86_64: (mExitThread == mReadPosition) && mExitThreadSemaphore
\*   arm64:  mExitThread == mReadPosition
\* and, when it holds, aOut = nullptr; return;
Pop_ExitCheckMarkerOnly ==
  /\ qc_pc \in {"marker", "sem"}
  /\ IF ExitMarkerReached
       THEN /\ qc_pc' = "idle"
            /\ aOut' = Null
            /\ qEos' = TRUE
       ELSE /\ qc_pc' = "test"
            /\ UNCHANGED <<aOut, qEos>>
  /\ UNCHANGED <<arch, qShared, qProd, qc_idx, qStop, qNext, qPushed,
                 qPopped, stops, acceptedAtStop, pushAfterStop, popBeforeStop>>
  /\ UNCHANGED qp_afterStop
  /\ UNCHANGED sVars
Pop_ExitCheck ==
  /\ qc_pc \in {"marker", "sem"}
  /\ IF qc_pc = "marker"
       THEN IF ExitMarkerReached
              THEN IF arch = "arm64"
                     THEN /\ qc_pc' = "idle"
                          /\ aOut' = Null
                          /\ qEos' = TRUE
                     ELSE /\ qc_pc' = "sem"
                          /\ UNCHANGED <<aOut, qEos>>
              ELSE /\ qc_pc' = "test"
                   /\ UNCHANGED <<aOut, qEos>>
       ELSE IF mExitThreadSemaphore
              THEN /\ qc_pc' = "idle"
                   /\ aOut' = Null
                   /\ qEos' = TRUE
              ELSE /\ qc_pc' = "test"
                   /\ UNCHANGED <<aOut, qEos>>
  /\ UNCHANGED <<arch, qShared, qProd, qc_idx, qStop, qNext, qPushed,
                 qPopped, stops, acceptedAtStop, pushAfterStop, popBeforeStop>>
  /\ UNCHANGED qp_afterStop
  /\ UNCHANGED sVars

\* mReadPosition++ inside the index expression of the clearing assignment
Pop_Incr ==
  /\ qc_pc = "incr"
  /\ qc_idx' = mReadPosition
  /\ mReadPosition' = mReadPosition + 1
  /\ qc_pc' = "clear"
  /\ UNCHANGED <<arch, mRingBuffer, mWritePosition, mExitThread,
                 mExitThreadSemaphore, qProd, aOut, qStop, qHistory>>
  /\ UNCHANGED sVars

\* mRingBuffer[... & RING_BUFFER_SIZE].mObj = nullptr and the return
Pop_ClearNothing ==
  /\ qc_pc = "clear"
  /\ mRingBuffer' = mRingBuffer
  /\ qc_pc' = "idle"
  /\ qPopped' = Append(qPopped, aOut)
  /\ UNCHANGED <<arch, mReadPosition, mWritePosition, mExitThread,
                 mExitThreadSemaphore, qProd, aOut, qc_idx, qStop, qNext,
                 qPushed, qEos, stops, acceptedAtStop, pushAfterStop, popBeforeStop>>
  /\ UNCHANGED qp_afterStop
  /\ UNCHANGED sVars
Pop_Clear ==
  /\ qc_pc = "clear"
  /\ mRingBuffer' = [mRingBuffer EXCEPT ![SlotOf(qc_idx)] = Null]
  /\ qc_pc' = "idle"
  /\ qPopped' = Append(qPopped, aOut)
  /\ UNCHANGED <<arch, mReadPosition, mWritePosition, mExitThread,
                 mExitThreadSemaphore, qProd, aOut, qc_idx, qStop, qNext,
                 qPushed, qEos, stops, acceptedAtStop, pushAfterStop, popBeforeStop>>
  /\ UNCHANGED qp_afterStop
  /\ UNCHANGED sVars

(* ------------------------------ stopQueue ------------------------------ *)

\* stopQueue() is called by the producer thread (between two pushes) or by
\* another thread: the load of mWritePosition
Stop_Load(by) ==
  /\ st_pc = "idle"
  /\ stops < MaxStops
  /\ by = "producer" => qp_pc = "idle"
  /\ st_by' = by
  /\ st_w' = mWritePosition
  /\ st_pc' = "mark"
  /\ stops' = stops + 1
  /\ acceptedAtStop' = IF stops = 0 THEN Len(qPushed) ELSE acceptedAtStop
  /\ pushAfterStop' = (pushAfterStop \/ qp_pc # "idle")
  /\ UNCHANGED <<arch, qShared, qProd, qCons, qNext, qPushed, qPopped,
                 qEos, popBeforeStop>>
  /\ UNCHANGED qp_afterStop
  /\ UNCHANGED sVars

\* mExitThread = mWritePosition: the store
Stop_MarkNothing ==
  /\ st_pc = "mark"
  /\ st_pc' = "flag"
  /\ UNCHANGED <<arch, qShared, qProd, qCons, st_w, st_by, qHistory>>
  /\ UNCHANGED sVars
Stop_Mark ==
  /\ st_pc = "mark"
  /\ mExitThread' = st_w
  /\ st_pc' = "flag"
  /\ UNCHANGED <<arch, mRingBuffer, mReadPosition, mWritePosition,
                 mExitThreadSemaphore, qProd, qCons, st_w, st_by, qHistory>>
  /\ UNCHANGED sVars

\* mExitThreadSemaphore = true and the return
Stop_Flag ==
  /\ st_pc = "flag"
  /\ mExitThreadSemaphore' = TRUE
  /\ st_pc' = "idle"
  /\ UNCHANGED <<arch, mRingBuffer, mReadPosition, mWritePosition,
                 mExitThread, qProd, qCons, st_w, st_by, qHistory>>
  /\ UNCHANGED sVars

(* ---------------------------- specifications -------------------------- *)

\* the queue a specification is not about: constructed and never used
SPSCUnused ==
  /\ SPSCQueueInit(1) /\ SPSCThreadsInit
  /\ N = 0 /\ ctor_capacity = 1 /\ ctor_result = "ok"
FastQueueUnused == FastQueueInit("x86_64") /\ FastQueueThreadsInit

\* an SPSCQueue constructed with a capacity of 1..MaxCap
InitSPSC ==
  /\ \E c \in 1..MaxCap : SPSCQueueInit(c) /\ ctor_capacity = c
  /\ N = 0 /\ ctor_result = "ok"
  /\ SPSCThreadsInit
  /\ FastQueueUnused

\* a FastQueue compiled from either header
InitFQ ==
  /\ \E a \in {"x86_64", "arm64"} : FastQueueInit(a)
  /\ FastQueueThreadsInit
  /\ SPSCUnused

\* one producer using emplace / try_emplace, one consumer using pop / try_pop
NextSPSC ==
  \/ Emplace_Enter
  \/ TryEmplace_Enter
  \/ Emplace_Wait
  \/ TryEmplace_Check
  \/ write_value
  \/ Producer_Publish
  \/ Pop_Enter
  \/ TryPop_Enter
  \/ Pop_Wait
  \/ TryPop_Check
  \/ read_value
  \/ Consumer_Publish

Spec ==
  /\ InitSPSC
  /\ [][NextSPSC]_vars

\* the same with force_emplace added to the producer's operations
NextForce ==
  \/ NextSPSC
  \/ ForceEmplace_Enter

SpecForce ==
  /\ InitSPSC
  /\ [][NextForce]_vars

\* the constructor is about to run with any template argument and any
\* capacity argument
InitCtor ==
  /\ N \in 0..MaxN
  /\ ctor_capacity \in 0..MAX_SIZE_T
  /\ ctor_result = "none"
  /\ NoQueue
  /\ SPSCThreadsInit
  /\ FastQueueUnused

NextCtor ==
  \/ HeapBuffer_ctor
  \/ StackBuffer_ctor

SpecCtor ==
  /\ InitCtor
  /\ [][NextCtor]_vars

\* the constructor is about to run with arguments it accepts (a heap queue
\* of capacity 1..MaxCap or a stack queue with N in 1..MaxN); afterwards
\* the producer uses emplace / try_emplace / force_emplace and the consumer
\* pop / try_pop
InitLife ==
  /\ \/ N = 0 /\ ctor_capacity \in 1..MaxCap
     \/ N \in 1..MaxN /\ ctor_capacity = 0
  /\ ctor_result = "none"
  /\ NoQueue
  /\ SPSCThreadsInit
  /\ FastQueueUnused

NextLife ==
  \/ NextCtor
  \/ NextForce

SpecLife ==
  /\ InitLife
  /\ [][NextLife]_vars

\* the blocking operations only: a producer that keeps calling emplace and
\* a consumer that keeps calling pop on a freshly constructed queue
EmplaceSteps ==
  Emplace_Enter \/ Emplace_Wait \/ write_value \/ Producer_Publish
PopSteps ==
  Pop_Enter \/ Pop_Wait \/ read_value \/ Consumer_Publish

NextBlocking ==
  \/ HeapBuffer_ctor
  \/ StackBuffer_ctor
  \/ Emplace_Enter
  \/ Emplace_Wait
  \/ write_value
  \/ Producer_Publish
  \/ Pop_Enter
  \/ Pop_Wait
  \/ read_value
  \/ Consumer_Publish

\* each thread is scheduled again and again
FairSpecBlocking ==
  /\ InitLife
  /\ [][NextBlocking]_vars
  /\ WF_vars(NextCtor)
  /\ WF_vars(EmplaceSteps)
  /\ WF_vars(PopSteps)

ProducerSteps == Push_Test \/ Push_Sem \/ Push_Incr \/ Push_Store
ConsumerSteps ==
  Pop_Call \/ Pop_Test \/ Pop_ExitCheck \/ Pop_Incr \/ Pop_Clear
StopSteps == Stop_Mark \/ Stop_Flag

\* FastQueue: a producer, a consumer and the callers of stopQueue()
NextFQ ==
  \/ Push_Call
  \/ Push_Test
  \/ Push_Sem
  \/ Push_Incr
  \/ Push_Store
  \/ Pop_Call
  \/ Pop_Test
  \/ Pop_ExitCheck
  \/ Pop_Incr
  \/ Pop_Clear
  \/ \E by \in {"producer", "other"} : Stop_Load(by)
  \/ Stop_Mark
  \/ Stop_Flag

SpecFQ ==
  /\ InitFQ
  /\ [][NextFQ]_vars

\* a thread that is inside a call keeps taking steps, and the consumer keeps
\* calling pop; whether the producer calls push again is its own choice
FairSpecFQ ==
  /\ SpecFQ
  /\ WF_vars(ProducerSteps)
  /\ WF_vars(ConsumerSteps)
  /\ WF_vars(StopSteps)

\* the producer and a stopQueue() caller keep taking the steps of the call
\* they are in; the consumer may stop calling pop, or stall, at any point
FairSpecPushStop ==
  /\ SpecFQ
  /\ WF_vars(ProducerSteps)
  /\ WF_vars(StopSteps)

(* ------------------------- FastQueue properties ------------------------ *)

\* C2: the non-null values returned by pop are always a prefix of the
\* values stored by push, in the same order, none skipped or repeated.
C2_SentinelFifo ==
  /\ Len(qPopped) <= Len(qPushed)
  /\ \A i \in 1..Len(qPopped) : qPopped[i] = qPushed[i]
  /\ (qc_pc \in {"incr", "clear"} =>
        /\ Len(qPopped) < Len(qPushed)
        /\ aOut = qPushed[Len(qPopped) + 1])

\* every offered value went through a ring smaller than their number
C2_Witness ==
  /\ Len(qPopped) = MaxItems
  /\ qPopped = qPushed
  /\ MaxItems > RING_BUFFER_SIZE + 1

\* C6: k values are pushed, then stopQueue() is called and returns, no push
\* follows, and only then the consumer starts to pop: null is returned only
\* after all k values were returned in push order, and once they were, a
\* pop finds its slot empty and its exit condition true (it returns null
\* instead of spinning).
C6_GracefulShutdown ==
  (stops > 0 /\ ~pushAfterStop /\ ~popBeforeStop) =>
     /\ Len(qPopped) <= Len(qPushed)
     /\ \A i \in 1..Len(qPopped) : qPopped[i] = qPushed[i]
     /\ (qEos => qPopped = qPushed)
     /\ (qc_pc = "test" /\ qPopped = qPushed) =>
           /\ mRingBuffer[SlotOf(mReadPosition)] = Null
           /\ ExitMarkerReached
           /\ mExitThreadSemaphore

\* a full ring (k = RING_BUFFER_SIZE + 1) was drained after the shutdown
\* and the next pop returned null
C6_Witness ==
  /\ stops > 0 /\ ~pushAfterStop /\ ~popBeforeStop
  /\ acceptedAtStop = RING_BUFFER_SIZE + 1
  /\ qPopped = qPushed /\ Len(qPopped) = RING_BUFFER_SIZE + 1
  /\ qEos /\ qc_pc = "idle" /\ aOut = Null

\* C7 (as stated): a pop returns null only after a stopQueue() call, and
\* only after every value whose push had returned when stopQueue() was
\* first called has been returned by a pop.
C7_GracefulDrain ==
  qEos =>
    /\ stops > 0
    /\ Len(qPopped) >= acceptedAtStop
    /\ \A i \in 1..acceptedAtStop : qPopped[i] = qPushed[i]

\* C8 (as stated): once stopQueue() has been called, a consumer that keeps
\* calling pop eventually receives null.
C8_EndOfStream == (stops > 0) ~> qEos

(* ------------------------- SPSCQueue properties ------------------------ *)

\* number of values accepted and not yet delivered
Unread == Len(pushed) - Len(popped)

\* C1: the values delivered by completed pops are always a prefix of the
\* values accepted by completed pushes (nothing lost, duplicated or
\* reordered); when as many were popped as pushed the sequences are equal.
C1_FifoPrefix ==
  /\ Len(popped) <= Len(pushed)
  /\ \A i \in 1..Len(popped) : popped[i] = pushed[i]
  /\ (Len(popped) = Len(pushed) => popped = pushed)

\* capacity 1, every value pushed and popped, cursors wrapped more than once
C1_Witness ==
  /\ capacity = 1
  /\ Len(popped) = MaxPush
  /\ popped = pushed

\* C3: without force_push no more than capacity() pushes complete without
\* an intervening completed pop; on a queue that was never popped a
\* try_push passes its check exactly while fewer than capacity() values
\* were accepted, and fails only once capacity() values were accepted.
C3_CapacityBound ==
  /\ pushesSincePop <= capacity
  /\ (popped = <<>> /\ pOp = "try_emplace") =>
       /\ (ppc \in {"write", "publish"} => Len(pushed) < capacity)
       /\ (ppc = "idle" /\ pRet = FALSE => Len(pushed) = capacity)

\* the (N+1)-th try_push on a never-popped queue of capacity N >= 2 failed
C3_Witness ==
  /\ capacity >= 2
  /\ popped = <<>> /\ cpc = "idle" /\ cOp = "none"
  /\ pOp = "try_emplace" /\ ppc = "idle" /\ pRet = FALSE
  /\ Len(pushed) = capacity

\* a try_emplace decision on a queue of capacity 1
C4_Step ==
  (capacity = 1 /\ ppc = "check" /\ pOp = "try_emplace" /\ ppc' # ppc) =>
     ((ppc' = "idle" /\ pRet' = FALSE) <=> (Unread = 1))

\* C4: with capacity 1 the queue holds 0 or 1 values, empty() is true
\* exactly when it holds none, a blocking push can leave its wait loop
\* exactly when it holds none, and a try_push fails exactly when it holds
\* one; this stays so through every cycle of the 2-slot ring.
C4_CapacityOne ==
  /\ [](capacity = 1 =>
          /\ Unread \in {0, 1}
          /\ (empty <=> Unread = 0)
          /\ (ppc = "check" /\ pOp = "emplace") =>
                ((ENABLED <<Emplace_Wait>>_sVars) <=> (Unread = 0)))
  /\ [][C4_Step]_sVars

\* capacity 1: a try_push was rejected after the ring had wrapped
C4_Witness ==
  /\ capacity = 1
  /\ Len(popped) >= 2 /\ Unread = 1
  /\ pOp = "try_emplace" /\ ppc = "idle" /\ pRet = FALSE

\* the publish of a force_emplace on a full queue, and the pop after it
C5_Step ==
  /\ (/\ pOp = "force_emplace" /\ ppc = "publish" /\ ppc' = "idle"
      /\ cpc = "idle" /\ capacity >= 2 /\ size = capacity)
       => (size' = capacity /\ ~empty')
  /\ (/\ pOp = "force_emplace" /\ ppc = "idle" /\ capacity >= 2
      /\ popped = <<>> /\ Len(pushed) = capacity + 1
      /\ cpc = "publish" /\ cpc' = "idle")
       => c_val = pushed[2]

\* C5 (as stated): force_push on a full, otherwise quiet queue of capacity
\* N >= 2 leaves size() at capacity(), and the next pop yields the
\* second-oldest value.
C5_ForcePushKeepsSize == [][C5_Step]_sVars

\* the steps of one try_emplace call
C9_Step ==
  /\ (ppc = "check" /\ pOp = "try_emplace" /\ ppc' # ppc) =>
       /\ (ppc' = "idle" /\ pRet' = FALSE) <=> (size = capacity)
       /\ (ppc' = "write") <=> (size < capacity)
       /\ UNCHANGED <<writeIndex_, readIndex_, buffer_>>
  /\ (ppc = "write" /\ pOp = "try_emplace" /\ ppc' # ppc) =>
       /\ buffer_' = [buffer_ EXCEPT ![writeIndex_ + padding] = p_val]
       /\ UNCHANGED <<writeIndex_, readIndex_>>
  /\ (ppc = "publish" /\ pOp = "try_emplace" /\ ppc' # ppc) =>
       /\ writeIndex_' = (writeIndex_ + 1) % (capacity + 1)
       /\ pRet' = TRUE
       /\ buffer_[writeIndex_ + padding] = p_val
       /\ UNCHANGED <<readIndex_, buffer_>>

\* C9: try_emplace returns false exactly when the queue holds capacity()
\* values as it decides, and then changes neither cursor nor any slot;
\* otherwise it stores the value in slot writeIndex, advances writeIndex by
\* one modulo capacity+1 and returns true.
C9_TryEmplace == [][C9_Step]_sVars

\* a try_push was rejected on a full queue whose contents wrap the ring
C9_Witness ==
  /\ pOp = "try_emplace" /\ ppc = "idle" /\ pRet = FALSE
  /\ writeIndex_ < readIndex_
  /\ size = capacity

\* the steps of one try_pop call
C10_Step ==
  /\ (cpc = "check" /\ cOp = "try_pop" /\ cpc' # cpc) =>
       /\ (cpc' = "idle" /\ cRet' = FALSE) <=> (size = 0)
       /\ (cpc' = "read") <=> (size > 0)
       /\ UNCHANGED <<writeIndex_, readIndex_, buffer_, c_val>>
  /\ (cpc = "read" /\ cOp = "try_pop" /\ cpc' # cpc) =>
       /\ c_val' = pushed[Len(popped) + 1]
       /\ UNCHANGED <<writeIndex_, readIndex_, buffer_>>
  /\ (cpc = "publish" /\ cOp = "try_pop" /\ cpc' # cpc) =>
       /\ readIndex_' = (readIndex_ + 1) % (capacity + 1)
       /\ cRet' = TRUE
       /\ UNCHANGED <<writeIndex_, buffer_, c_val>>

\* C10: try_pop returns false exactly when the queue is empty as it
\* decides, and then changes neither cursor, nor any slot, nor its output;
\* otherwise it delivers the oldest unread value, advances readIndex by one
\* modulo capacity+1 and returns true.
C10_TryPop == [][C10_Step]_sVars

\* a try_pop was rejected on an empty queue after values had gone through,
\* its output still holding the value of the pop before
C10_Witness ==
  /\ cOp = "try_pop" /\ cpc = "idle" /\ cRet = FALSE
  /\ Len(popped) >= 2 /\ Unread = 0
  /\ c_val = popped[Len(popped)]

(* ----------------------- construction properties ----------------------- *)

\* the usable capacity the constructor was asked for: the capacity argument
\* of the heap variant, the template argument N of the stack variant
Requested == IF N = 0 THEN ctor_capacity ELSE N

\* the constructor returning, and any later step of either thread
C11_Step ==
  /\ (ctor_result = "none" /\ ctor_result' = "ok") =>
        (empty' /\ size' = 0 /\ capacity' = Requested)
  /\ (ctor_result = "ok") => (capacity' = capacity)

\* C11: construction with capacity c >= 1 yields a queue with empty() true,
\* size() 0 and capacity() = c, and capacity() stays c through every step
\* of push, try_push, force_push, pop and try_pop.
C11_CapacityConstant ==
  /\ [](ctor_result = "ok" => capacity = Requested)
  /\ [][C11_Step]_vars

\* a heap queue of the largest capacity after a force_push and a pop
C11_Witness ==
  /\ ctor_result = "ok" /\ N = 0 /\ ctor_capacity = MaxCap
  /\ pOp = "force_emplace" /\ ppc = "idle"
  /\ Len(popped) >= 1 /\ cpc = "idle"
  /\ capacity = MaxCap

\* C12: the heap variant constructed with a capacity argument < 1 throws
\* the configuration error and no queue exists; the stack variant throws
\* the configuration error exactly when its capacity argument is non-zero
\* and is constructed, with capacity N, when it is 0.
C12_InvalidConfiguration ==
  ctor_result # "none" =>
    /\ (N = 0 /\ ctor_capacity < 1) =>
          (ctor_result = "logic_error" /\ NoQueue)
    /\ (N > 0 /\ ctor_capacity # 0) =>
          (ctor_result = "invalid_argument" /\ NoQueue)
    /\ (N > 0 /\ ctor_capacity = 0) =>
          (ctor_result = "ok" /\ capacity = N /\ empty)

\* the heap variant was constructed with the default argument 0
C12_Witness ==
  /\ N = 0 /\ ctor_capacity = 0
  /\ ctor_result = "logic_error"

\* C13 (as stated): the heap variant constructed with a capacity argument
\* c >= 1 for which c + 1 + 2*padding exceeds MAX_SIZE_T throws the
\* overflow error and no queue exists.
C13_OverflowRejected ==
  (/\ N = 0 /\ ctor_result # "none" /\ ctor_capacity >= 1
   /\ ctor_capacity + 1 + (2 * padding) > MAX_SIZE_T)
     => (ctor_result = "overflow_error" /\ NoQueue)

(* ------------------------- progress of push / pop ---------------------- *)

\* the producer is in emplace's wait loop with a full queue while the
\* consumer is in pop's wait loop with an empty queue
BothSpin ==
  /\ ppc = "check" /\ pOp = "emplace" /\ p_nextWriteIndex = readIndex_
  /\ cpc = "check" /\ cOp = "pop" /\ c_readIndex = writeIndex_

\* C14: under fair scheduling every push call returns having enqueued its
\* value and every pop call (while values are still to come) returns an
\* element, for every capacity including 1; the producer never spins on a
\* full queue while the consumer spins on an empty one.
C14_BlockingProgress ==
  /\ \A k \in 0..(MaxPush - 1) :
        (ppc # "idle" /\ Len(pushed) = k)
          ~> (ppc = "idle" /\ Len(pushed) = k + 1 /\ pushed[k + 1] = k + 1)
  /\ \A k \in 0..(MaxPush - 1) :
        (cpc # "idle" /\ Len(popped) = k)
          ~> (cpc = "idle" /\ Len(popped) = k + 1)
  /\ [](~BothSpin)

\* capacity 1: the producer waits on the full queue after the ring has
\* wrapped, the consumer being about to take the value
C14_Witness ==
  /\ capacity = 1 /\ ctor_result = "ok"
  /\ ppc = "check" /\ pOp = "emplace" /\ p_nextWriteIndex = readIndex_
  /\ cpc = "read" /\ cOp = "pop"
  /\ Len(popped) >= 2

(* ---------------------------- slot ownership --------------------------- *)

\* slot i lies in the unread region [readIndex_, writeIndex_) of the ring
InUnread(i) ==
  \E k \in 0..(size - 1) : (readIndex_ + k) % capacity_ = i

\* the steps that touch a slot or publish a cursor
C15_Step ==
  /\ (ppc = "write" /\ ppc' # ppc) =>
        /\ ~InUnread(p_writeIndex)
        /\ buffer_' = [buffer_ EXCEPT ![p_writeIndex + padding] = p_val]
        /\ writeIndex_' = writeIndex_
  /\ (cpc = "read" /\ cpc' # cpc) =>
        /\ InUnread(c_readIndex)
        /\ c_val' = pushed[Len(popped) + 1]
  /\ (writeIndex_' # writeIndex_) =>
        /\ ppc = "publish"
        /\ buffer_[writeIndex_ + padding] = p_val
        /\ buffer_' = buffer_

\* C15: without force_push the producer writes a slot only while it lies
\* outside the unread region, the consumer reads a slot only when it lies
\* inside it and holds the value whose publish made it readable, the two
\* are never about to access the same slot, every unread slot keeps its
\* value, and writeIndex_ is stored only after the slot was written.
C15_SlotOwnership ==
  /\ [](~(ppc = "write" /\ cpc = "read" /\ p_writeIndex = c_readIndex))
  /\ [](\A k \in 1..Unread :
          buffer_[((readIndex_ + k - 1) % capacity_) + padding]
            = pushed[Len(popped) + k])
  /\ [][C15_Step]_vars

\* the producer is about to write one slot while the consumer is about to
\* read another, after values have already gone through the ring
C15_Witness ==
  /\ ppc = "write" /\ cpc = "read"
  /\ p_writeIndex # c_readIndex
  /\ Len(popped) >= 2

(* --------------------------- cursor invariant -------------------------- *)

\* a cursor advanced by one, wrapping to 0 from capacity()
Advanced(cursor) == IF cursor = capacity THEN 0 ELSE cursor + 1

\* how each step may change the cursors
C16_Step ==
  /\ (ppc = "publish" /\ ppc' # ppc) =>
        (writeIndex_' = Advanced(writeIndex_) /\ readIndex_' = readIndex_)
  /\ (cpc = "publish" /\ cpc' # cpc) =>
        (readIndex_' = Advanced(readIndex_) /\ writeIndex_' = writeIndex_)
  /\ (writeIndex_' # writeIndex_) => (ppc = "publish" /\ ppc' = "idle")
  /\ (readIndex_' # readIndex_) => (cpc = "publish" /\ cpc' = "idle")

\* C16: with force_push included, both cursors stay in [0, capacity()+1);
\* the publish step of each successful operation advances exactly one
\* cursor by one, wrapping to 0 from capacity(); no other step changes a
\* cursor, so the producer never changes readIndex_ nor the consumer
\* writeIndex_.
C16_CursorInvariant ==
  /\ [](ctor_result = "ok" =>
          /\ writeIndex_ \in 0..capacity
          /\ readIndex_ \in 0..capacity)
  /\ [][C16_Step]_vars

\* both cursors have gone once round the ring and are back at 0
C16_Witness ==
  /\ ctor_result = "ok" /\ capacity >= 2
  /\ ppc = "idle" /\ Len(pushed) = capacity + 1 /\ writeIndex_ = 0
  /\ cpc = "idle" /\ Len(popped) = capacity + 1 /\ readIndex_ = 0

(* ---------------------------- size() / empty() ------------------------- *)

\* C17: size() is (writeIndex_ - readIndex_) mod (capacity() + 1) for the
\* cursor pair it reads; when neither thread is inside an operation and
\* force_push is not used, size() is the number of values pushed and not
\* yet popped, lies in 0..capacity(), and empty() holds exactly when
\* size() is 0.
C17_SizeIsOccupancy ==
  /\ size = (writeIndex_ - readIndex_) % (capacity + 1)
  /\ (ppc = "idle" /\ cpc = "idle") =>
        /\ size = Unread
        /\ size \in 0..capacity
        /\ (empty <=> size = 0)

\* a quiet queue whose unread values wrap the end of the ring, short of
\* full
C17_Witness ==
  /\ ppc = "idle" /\ cpc = "idle"
  /\ writeIndex_ < readIndex_
  /\ size = 1 /\ Unread = 1 /\ capacity >= 2

(* ------------------------ FastQueue after shutdown --------------------- *)

\* C18 (as stated): a push that starts after stopQueue() has returned never
\* advances the write position nor stores into the ring: it can only end
\* abandoned.
C18_StopStopsPushes ==
  qp_afterStop =>
    /\ qp_pc # "store"
    /\ (qp_pc = "idle" => qp_result = "abandoned")

\* the values held by the slots of the ring
InRing == {mRingBuffer[i] : i \in 0..RING_BUFFER_SIZE} \ {Null}

\* the values of a sequence
Range(seq) == {seq[i] : i \in 1..Len(seq)}

\* the step by which a push returns without storing
C19_Step ==
  (qp_pc # "idle" /\ qp_pc' = "idle" /\ qp_result' = "abandoned") =>
     /\ qp_pc = "sem"
     /\ mExitThreadSemaphore
     /\ UNCHANGED <<mRingBuffer, mWritePosition, qPushed>>

\* C19: once stopQueue() has been called, a push that is waiting for a
\* non-null slot returns, whatever the consumer does; the step by which it
\* gives up changes neither the ring nor the write position, and its value
\* is in no slot and is never returned by a pop.
C19_PushAbandons ==
  /\ (stops > 0 /\ qp_pc # "idle") ~> (qp_pc = "idle")
  /\ [][C19_Step]_vars
  /\ []((qp_pc = "idle" /\ qp_result = "abandoned") =>
          /\ qp_val \notin InRing
          /\ qp_val \notin Range(qPushed)
          /\ qp_val \notin Range(qPopped)
          /\ aOut # qp_val)

\* the ring is full, the consumer has never popped, stopQueue() was called
\* and the waiting push has returned without storing
C19_Witness ==
  /\ qp_pc = "idle" /\ qp_result = "abandoned"
  /\ qPopped = <<>> /\ qc_pc = "idle"
  /\ Len(qPushed) = RING_BUFFER_SIZE + 1
  /\ \A i \in 0..RING_BUFFER_SIZE : mRingBuffer[i] # Null
  /\ mWritePosition - mReadPosition = RING_BUFFER_SIZE + 1

(* --------------------------- ring occupancy ---------------------------- *)

\* the initial value of both positions
FirstPosition == IF arch = "arm64" THEN 1 ELSE 0

\* the store of push and the take of pop
C20_Step ==
  /\ (qp_pc = "store" /\ qp_pc' # qp_pc) =>
        mRingBuffer[SlotOf(qp_idx)] = Null
  /\ (qc_pc = "test" /\ qc_pc' = "incr") =>
        /\ mReadPosition < mWritePosition
        /\ mReadPosition - FirstPosition + 1 \in 1..Len(qPushed)
        /\ aOut' = qPushed[mReadPosition - FirstPosition + 1]

\* C20: the write position is never behind the read position and never
\* more than RING_BUFFER_SIZE + 1 ahead of it; push stores only into a
\* null slot; pop takes from a slot only the value that push stored for
\* the current read position.
C20_RingOccupancy ==
  /\ [](/\ mWritePosition - mReadPosition >= 0
        /\ mWritePosition - mReadPosition <= RING_BUFFER_SIZE + 1)
  /\ [][C20_Step]_vars

\* the ring is full for the second time and the consumer has just taken
\* the oldest value from its slot
C20_Witness ==
  /\ mWritePosition - mReadPosition = RING_BUFFER_SIZE + 1
  /\ Len(qPopped) >= 1
  /\ qc_pc = "incr"

(* ----------------------- no spurious end-of-stream --------------------- *)

\* how a pop may end while stopQueue() has never been called
C21_Step ==
  /\ (stops = 0 /\ qc_pc # "idle" /\ qc_pc' = "idle") =>
        /\ qc_pc = "clear"
        /\ aOut' # Null
        /\ qPopped' = Append(qPopped, aOut')
        /\ ~qEos'
  /\ (stops = 0 /\ qc_pc = "test" /\ qc_pc' # qc_pc) =>
        IF mRingBuffer[SlotOf(mReadPosition)] = Null
          THEN qc_pc' = "marker"
          ELSE qc_pc' = "incr" /\ aOut' \in Range(qPushed)
  /\ (stops = 0 /\ qc_pc \in {"marker", "sem"} /\ qc_pc' # qc_pc) =>
        qc_pc' \in {"test", "sem"}

\* C21: in both headers, while stopQueue() has never been called no pop
\* returns null: a pop returns only through the clearing of a slot it
\* found non-null, and on an empty ring (the fresh queue included) it stays
\* in its loop.
C21_NoSpuriousEos ==
  /\ [](stops = 0 => (~qEos /\ (qc_pc = "idle" /\ Len(qPopped) > 0
                                   => aOut # Null)))
  /\ [][C21_Step]_vars

\* the first pop on a fresh x86_64 queue has found its slot empty and the
\* exit marker equal to the read position, and is about to read the flag
C21_Witness ==
  /\ arch = "x86_64" /\ stops = 0
  /\ qPushed = <<>> /\ qp_pc = "idle" /\ qp_result = "none"
  /\ qc_pc = "sem" /\ ExitMarkerReached

(* ----------------------------- shadow cursors -------------------------- *)

\* distance from cursor a forward to cursor b round the ring
Distance(a, b) == (b - a) % (capacity + 1)

\* the only ways a shadow cursor changes
C22_Step ==
  /\ (readIndexCache_' # readIndexCache_) =>
        /\ ppc = "check" /\ pOp \in {"emplace", "try_emplace"}
        /\ p_nextWriteIndex = readIndexCache_
        /\ readIndexCache_' = readIndex_
  /\ (writeIndexCache_' # writeIndexCache_) =>
        /\ cpc = "check" /\ cOp \in {"pop", "try_pop"}
        /\ c_readIndex = writeIndexCache_
        /\ writeIndexCache_' = writeIndex_

\* C22: without force_push, readIndexCache_ changes only in the check of
\* push / try_push when nextWriteIndex equals it, and then to readIndex_;
\* writeIndexCache_ changes only in the check of pop / try_pop when
\* readIndex equals it, and then to writeIndex_; the producer's shadow
\* never shows fewer unread values than there are, the consumer's never
\* more.
C22_ShadowsConservative ==
  /\ [](/\ Distance(readIndexCache_, writeIndex_)
             >= Distance(readIndex_, writeIndex_)
        /\ Distance(readIndex_, writeIndexCache_)
             <= Distance(readIndex_, writeIndex_))
  /\ [][C22_Step]_vars

\* both shadows are stale at once, after the ring has wrapped
C22_Witness ==
  /\ Distance(readIndexCache_, writeIndex_)
       > Distance(readIndex_, writeIndex_)
  /\ Distance(readIndex_, writeIndexCache_)
       < Distance(readIndex_, writeIndex_)
  /\ Len(popped) >= 2

(* ---------------------- the two headers compared ----------------------- *)

\* an outcome seen from outside the queue: some pop has returned null
\* although stopQueue() was never called, or while a value whose push had
\* returned before stopQueue() was first called is still undelivered
EarlyEos ==
  qEos /\ (stops = 0 \/ Len(qPopped) < acceptedAtStop)

\* no run of the arm64 header produces that outcome
Arm64NeverEarly == (arch = "arm64") => ~EarlyEos

\* C23 (as stated): the two headers allow the same pop results and push
\* outcomes for the same calls; in particular the x86_64 header allows no
\* end-of-stream at a point where the arm64 header allows none.
C23_ArchEquivalent == (arch = "x86_64") => ~EarlyEos

=============================================================================
